---------------------------- MODULE Spec2Model ----------------------------
(***************************************************************************)
(* Expense tracker: the free-text extractor (src/tools.py) and the ledger  *)
(* store kept in one CSV file (src/tracker_agent.py).                      *)
(*                                                                         *)
(* Texts are TLA+ strings and are processed character by character, the    *)
(* way the Python string methods and the regular expression do.            *)
(***************************************************************************)
EXTENDS Integers, Sequences, FiniteSets, TLC

(***************************************************************************)
(* Python string primitives                                                *)
(***************************************************************************)

\* s[i] of a non-empty string, as a one-character string (1-based)
CharAt(s, i) == SubSeq(s, i, i)

UpperAlpha == "ABCDEFGHIJKLMNOPQRSTUVWXYZ"
LowerAlpha == "abcdefghijklmnopqrstuvwxyz"
DigitChars == "0123456789"

\* position of the one-character string c in alphabet, 0 when absent
IndexIn(alphabet, c) ==
    IF \E i \in 1..Len(alphabet) : CharAt(alphabet, i) = c
    THEN CHOOSE i \in 1..Len(alphabet) : CharAt(alphabet, i) = c
    ELSE 0

\* the character classes and the case mappings, as tables over the characters
DigitSet == {CharAt(DigitChars, i) : i \in 1..Len(DigitChars)}
UpperSet == {CharAt(UpperAlpha, i) : i \in 1..Len(UpperAlpha)}
LowerSet == {CharAt(LowerAlpha, i) : i \in 1..Len(LowerAlpha)}
ToLower == [c \in UpperSet |-> CharAt(LowerAlpha, IndexIn(UpperAlpha, c))]
ToUpper == [c \in LowerSet |-> CharAt(UpperAlpha, IndexIn(LowerAlpha, c))]
DigitValue == [c \in DigitSet |-> IndexIn(DigitChars, c) - 1]

IsDigit(c) == c \in DigitSet
IsUpper(c) == c \in UpperSet
IsLower(c) == c \in LowerSet
IsAlpha(c) == IsUpper(c) \/ IsLower(c)
IsSpace(c) == c = " "

LowerChar(c) == IF IsUpper(c) THEN ToLower[c] ELSE c
UpperChar(c) == IF IsLower(c) THEN ToUpper[c] ELSE c

\* str.lower()
RECURSIVE Lower(_)
Lower(s) == IF s = "" THEN "" ELSE LowerChar(CharAt(s, 1)) \o Lower(Tail(s))

\* sub occurs in s at position i
MatchAt(s, sub, i) ==
    /\ i + Len(sub) - 1 <= Len(s)
    /\ SubSeq(s, i, i + Len(sub) - 1) = sub

\* the substrings of s: Python's `sub in s` is sub \in Substrings(s)
Substrings(s) ==
    UNION {{SubSeq(s, i, j) : j \in i..Len(s)} : i \in 1..Len(s)} \cup {""}

\* any(keyword in text for keyword in keywords), given the substrings of text
AnyKeywordIn(substrings, keywords) ==
    \E i \in 1..Len(keywords) : keywords[i] \in substrings

\* any(keyword in text for keyword in keywords)
ContainsAny(s, keywords) == AnyKeywordIn(Substrings(s), keywords)

\* any(char.isdigit() for char in s)
HasDigit(s) == \E i \in 1..Len(s) : IsDigit(CharAt(s, i))

\* str.strip() (the texts hold no whitespace but the blank)
RECURSIVE LStrip(_)
LStrip(s) == IF s # "" /\ IsSpace(CharAt(s, 1)) THEN LStrip(Tail(s)) ELSE s
RECURSIVE RStrip(_)
RStrip(s) ==
    IF s # "" /\ IsSpace(CharAt(s, Len(s))) THEN RStrip(SubSeq(s, 1, Len(s) - 1)) ELSE s
Strip(s) == RStrip(LStrip(s))

\* str.split(): the maximal runs of non-blank characters, in order.
\* cur is the word being read.
RECURSIVE SplitFrom(_, _)
SplitFrom(s, cur) ==
    IF s = "" THEN (IF cur = "" THEN <<>> ELSE <<cur>>)
    ELSE IF IsSpace(CharAt(s, 1))
         THEN (IF cur = "" THEN <<>> ELSE <<cur>>) \o SplitFrom(Tail(s), "")
         ELSE SplitFrom(Tail(s), cur \o CharAt(s, 1))
Split(s) == SplitFrom(s, "")

\* " ".join(words)
RECURSIVE Join(_)
Join(words) ==
    IF words = <<>> THEN ""
    ELSE IF Len(words) = 1 THEN words[1]
    ELSE words[1] \o " " \o Join(Tail(words))

\* str.replace(old, ""): every non-overlapping occurrence of old, scanning from
\* the left, is removed
RECURSIVE Remove(_, _)
Remove(s, old) ==
    IF s = "" THEN ""
    ELSE IF MatchAt(s, old, 1) THEN Remove(SubSeq(s, Len(old) + 1, Len(s)), old)
    ELSE CharAt(s, 1) \o Remove(Tail(s), old)

\* str.title(): a letter that follows a non-letter (or starts the string) is
\* upper-cased, every other letter lower-cased.  prevAlpha: the previous
\* character was a letter.
RECURSIVE TitleFrom(_, _)
TitleFrom(s, prevAlpha) ==
    IF s = "" THEN ""
    ELSE LET c == CharAt(s, 1)
         IN (IF prevAlpha THEN LowerChar(c) ELSE UpperChar(c))
                \o TitleFrom(Tail(s), IsAlpha(c))
Title(s) == TitleFrom(s, FALSE)

\* the position of the last x of words, where list.index gives the first
LastIndexOf(words, x) == CHOOSE i \in 1..Len(words) :
                            /\ words[i] = x
                            /\ \A j \in (i + 1)..Len(words) : words[j] # x

\* list.index(x) as a 1-based position; used only when x is in words
IndexOf(words, x) == CHOOSE i \in 1..Len(words) :
                        /\ words[i] = x
                        /\ \A j \in 1..(i - 1) : words[j] # x

InWords(words, x) == \E i \in 1..Len(words) : words[i] = x

(***************************************************************************)
(* Numbers.  A float that the program handles is a decimal with at most    *)
(* two fractional digits; it is kept exactly, as a count of hundredths.    *)
(***************************************************************************)

DigitVal(c) == DigitValue[c]

\* value of a string of decimal digits
RECURSIVE DigitsVal(_)
DigitsVal(s) ==
    IF s = "" THEN 0 ELSE DigitsVal(SubSeq(s, 1, Len(s) - 1)) * 10 + DigitVal(CharAt(s, Len(s)))

\* length of the maximal run of digits of s that starts at position i
RECURSIVE DigitRun(_, _)
DigitRun(s, i) ==
    IF i <= Len(s) /\ IsDigit(CharAt(s, i)) THEN 1 + DigitRun(s, i + 1) ELSE 0


(***************************************************************************)
(* Optional values: Python's None against a value.                         *)
(***************************************************************************)
NoneNum == [some |-> FALSE, v |-> 0]
NoneStr == [some |-> FALSE, v |-> ""]
Some(x) == [some |-> TRUE, v |-> x]

(***************************************************************************)
(* The extractor (src/tools.py)                                            *)
(***************************************************************************)

\* re.search(amount_pattern, text): the optional currency marker and blanks
\* only move the start of the match; group 1 is the first maximal run of
\* digits, with a "." and one or two digits when they follow it directly.
\* float(group 1), in hundredths.
AmountOf(text_lower) ==
    IF ~HasDigit(text_lower) THEN NoneNum
    ELSE LET p == CHOOSE i \in 1..Len(text_lower) :
                     /\ IsDigit(CharAt(text_lower, i))
                     /\ \A j \in 1..(i - 1) : ~IsDigit(CharAt(text_lower, j))
             n == DigitRun(text_lower, p)
             whole == DigitsVal(SubSeq(text_lower, p, p + n - 1))
             q == p + n
             hasFrac == /\ q + 1 <= Len(text_lower)
                        /\ CharAt(text_lower, q) = "."
                        /\ IsDigit(CharAt(text_lower, q + 1))
             two == hasFrac /\ q + 2 <= Len(text_lower) /\ IsDigit(CharAt(text_lower, q + 2))
         IN Some(whole * 100
                 + (IF ~hasFrac THEN 0
                    ELSE IF two THEN DigitsVal(SubSeq(text_lower, q + 1, q + 2))
                    ELSE DigitVal(CharAt(text_lower, q + 1)) * 10))

expense_keywords ==
    << "spent", "paid", "bought", "purchased", "ate", "gave", "cost", "costs",
       "bill", "bills", "expense", "expenses", "shopping", "shop", "buy" >>

\* income_keywords without "got"
income_keywords_without_got ==
    << "received", "earned", "salary", "income", "profit", "bonus",
       "refund", "returned", "cashback", "won", "gift", "allowance" >>

income_keywords ==
    << "received", "got", "earned", "salary", "income", "profit", "bonus",
       "refund", "returned", "cashback", "won", "gift", "allowance" >>

expense_context == << "food", "groceries", "restaurant", "fuel", "gas", "movie", "clothes" >>
income_context == << "work", "job", "freelance", "project", "client" >>

\* the dict of extract_category_for_expense, in insertion order
category_keywords ==
    << [cat |-> "Food & Dining", keywords |-> << "food", "restaurant", "lunch", "dinner", "breakfast", "ate", "pizza", "coffee", "snack" >>],
       [cat |-> "Groceries", keywords |-> << "groceries", "grocery", "supermarket", "vegetables", "fruits", "milk", "bread" >>],
       [cat |-> "Transportation", keywords |-> << "fuel", "gas", "petrol", "diesel", "uber", "taxi", "bus", "train", "metro" >>],
       [cat |-> "Entertainment", keywords |-> << "movie", "movies", "cinema", "game", "games", "party", "concert", "show" >>],
       [cat |-> "Shopping", keywords |-> << "clothes", "clothing", "shoes", "dress", "shirt", "shopping", "mall" >>],
       [cat |-> "Bills & Utilities", keywords |-> << "bill", "bills", "electricity", "water", "internet", "phone", "rent" >>],
       [cat |-> "Health & Medical", keywords |-> << "doctor", "medicine", "hospital", "pharmacy", "medical", "health" >>],
       [cat |-> "Education", keywords |-> << "books", "course", "class", "tuition", "fees", "school", "college" >>] >>

\* the dict of extract_category_for_income, in insertion order
income_sources ==
    << [cat |-> "Salary", keywords |-> << "salary", "job", "work", "employment", "paycheck" >>],
       [cat |-> "Freelance", keywords |-> << "freelance", "freelancing", "client", "project", "contract" >>],
       [cat |-> "Business", keywords |-> << "business", "sales", "profit", "revenue" >>],
       [cat |-> "Investment", keywords |-> << "investment", "dividend", "interest", "stocks", "mutual" >>],
       [cat |-> "Gift", keywords |-> << "gift", "present", "birthday", "wedding" >>],
       [cat |-> "Refund", keywords |-> << "refund", "return", "cashback" >>],
       [cat |-> "Allowance", keywords |-> << "allowance", "pocket money", "parents" >>] >>

prepositions == << "on", "for", "to", "at" >>

\* the first bucket of table, in table order, one of whose keywords is a
\* substring of the text; "" (Python's None) when there is none
BucketOf(table, text_lower) ==
    LET substrings == Substrings(text_lower)
        matching == {i \in 1..Len(table) : AnyKeywordIn(substrings, table[i].keywords)}
    IN IF matching # {}
       THEN table[CHOOSE i \in matching : \A j \in matching : i <= j].cat
       ELSE ""

\* The loop over ["on", "for", "to", "at"] from its k-th keyword on: the
\* first keyword of the list that is a word of the text and is not its last
\* word decides (break), whatever the cleaned text is; idx is the keyword's
\* first position in words.  "" when no keyword decides.
RECURSIVE PrepositionCategory(_, _)
PrepositionCategory(words, k) ==
    IF k > Len(prepositions) THEN ""
    ELSE IF InWords(words, prepositions[k])
              /\ IndexOf(words, prepositions[k]) + 1 <= Len(words)
         THEN LET idx == IndexOf(words, prepositions[k])
                  category == Strip(Join(SubSeq(words, idx + 1, Len(words))))
              IN Strip(Remove(Remove(category, "the"), "a"))
         ELSE PrepositionCategory(words, k + 1)

\* words_after_amount: the words without a digit that come after the first
\* word with a digit
RECURSIVE WordsAfterAmount(_, _)
WordsAfterAmount(words, found_number) ==
    IF words = <<>> THEN <<>>
    ELSE IF HasDigit(words[1]) THEN WordsAfterAmount(Tail(words), TRUE)
    ELSE IF found_number THEN <<words[1]>> \o WordsAfterAmount(Tail(words), TRUE)
    ELSE WordsAfterAmount(Tail(words), FALSE)

FirstN(seq, n) == SubSeq(seq, 1, IF Len(seq) < n THEN Len(seq) ELSE n)

\* extract_category_for_expense(text_lower, words).  The local `category` is
\* None or a string and is only ever tested with `not category`, which None
\* and "" answer alike: "" stands for both.
extract_category_for_expense(text_lower, words) ==
    LET bucket == BucketOf(category_keywords, text_lower)
        byPreposition == IF bucket = "" THEN PrepositionCategory(words, 1) ELSE bucket
        words_after_amount == WordsAfterAmount(words, FALSE)
        category ==
            IF byPreposition = "" /\ HasDigit(text_lower) /\ words_after_amount # <<>>
            THEN Strip(Join(FirstN(words_after_amount, 3)))
            ELSE byPreposition
    IN IF category # "" THEN Title(category) ELSE "Miscellaneous"

\* extract_category_for_income(text_lower, words)
extract_category_for_income(text_lower, words) ==
    LET bucket == BucketOf(income_sources, text_lower)
        category ==
            IF bucket = "" /\ InWords(words, "from")
                           /\ IndexOf(words, "from") + 1 <= Len(words)
            THEN Strip(Join(SubSeq(words, IndexOf(words, "from") + 1, Len(words))))
            ELSE bucket
    IN IF category # "" THEN Title(category) ELSE "Other Income"

\* TypeBranch with the income keywords checked before the expense keywords
TypeBranch_IncomeFirst(text_lower, amount) ==
    LET substrings == Substrings(text_lower)
    IN
    IF AnyKeywordIn(substrings, << "received", "got", "earned", "salary", "income", "profit",
                                  "bonus", "refund", "returned", "cashback", "won", "gift",
                                  "allowance" >>) THEN "income"
    ELSE IF AnyKeywordIn(substrings, << "spent", "paid", "bought", "purchased", "ate", "gave",
                                       "cost", "costs", "bill", "bills", "expense",
                                       "expenses", "shopping", "shop", "buy" >>) THEN "expense"
    ELSE "none"

\* the branch of extract_expense_info that classifies the text:
\* "expense", "income", "context_expense", "context_income" or "none"
TypeBranch(text_lower, amount) ==
    LET substrings == Substrings(text_lower)
    IN
    IF AnyKeywordIn(substrings, expense_keywords) THEN "expense"
    ELSE IF AnyKeywordIn(substrings, income_keywords) THEN "income"
    ELSE IF amount.some /\ amount.v # 0
         THEN IF AnyKeywordIn(substrings, expense_context) THEN "context_expense"
              ELSE IF AnyKeywordIn(substrings, income_context) THEN "context_income"
              ELSE "none"
    ELSE "none"

\* extract_expense_info(text): Amount in hundredths, Category and Type, each
\* None or a value
extract_expense_info(text) ==
    LET text_lower == Lower(text)
        amount == AmountOf(text_lower)
        words == Split(text_lower)
        branch == TypeBranch(text_lower, amount)
    IN IF branch \in {"expense", "context_expense"}
       THEN [Amount |-> amount,
             Category |-> Some(extract_category_for_expense(text_lower, words)),
             Type |-> Some("Expense")]
       ELSE IF branch \in {"income", "context_income"}
       THEN [Amount |-> amount,
             Category |-> Some(extract_category_for_income(text_lower, words)),
             Type |-> Some("Income")]
       ELSE [Amount |-> amount, Category |-> NoneStr, Type |-> NoneStr]

(***************************************************************************)
(* The backing file and pandas' reading and writing of it                  *)
(* (src/tracker_agent.py: pd.read_csv(CSV_FILE), df.to_csv(CSV_FILE)).     *)
(*                                                                         *)
(* The file is a header line and one line of four cells per record; a cell *)
(* is the text between two commas.  No text of the model holds a comma, a  *)
(* quote or a line break, so no cell is quoted.  A value in memory is      *)
(* tagged with its Python type: a str, a float (in hundredths), an int or  *)
(* the missing value NaN.                                                  *)
(***************************************************************************)
StrV(s) == [k |-> "str", s |-> s, n |-> 0]
FloatV(h) == [k |-> "float", s |-> "", n |-> h]
IntV(n) == [k |-> "int", s |-> "", n |-> n]
NaN == [k |-> "nan", s |-> "", n |-> 0]

\* the cells read_csv takes for a missing value (its default na_values)
NaCells == { "", "#N/A", "#N/A N/A", "#NA", "-1.#IND", "-1.#QNAN", "-NaN", "-nan",
             "1.#IND", "1.#QNAN", "<NA>", "N/A", "NA", "NULL", "NaN", "None",
             "n/a", "nan", "null" }

\* str(n) of an integer
DigitStr == [d \in 0..9 |-> CharAt(DigitChars, d + 1)]
RECURSIVE IntStr(_)
IntStr(n) ==
    IF n < 0 THEN "-" \o IntStr(0 - n)
    ELSE IF n < 10 THEN DigitStr[n] ELSE IntStr(n \div 10) \o DigitStr[n % 10]

\* repr of a float of h hundredths: "100.0", "12.5", "0.05", "-31.0"
RECURSIVE FloatStr(_)
FloatStr(h) ==
    IF h < 0 THEN "-" \o FloatStr(0 - h)
    ELSE IntStr(h \div 100) \o "."
           \o (IF h % 10 = 0 THEN IntStr((h % 100) \div 10)
               ELSE IntStr((h % 100) \div 10) \o IntStr(h % 10))

\* a cell without its sign
Unsigned(c) == IF c # "" /\ CharAt(c, 1) \in {"-", "+"} THEN Tail(c) ELSE c
IsNegative(c) == c # "" /\ CharAt(c, 1) = "-"
AllDigits(c) == \A i \in 1..Len(c) : IsDigit(CharAt(c, i))

\* cells the parser converts to a number: a sign or none, then digits, or
\* digits "." digits with one side of the point or the other left empty
\* (at most two decimals: the model counts in hundredths)
IsIntCell(c) == Unsigned(c) # "" /\ AllDigits(Unsigned(c))
IsFloatCell(c) ==
    \/ IsIntCell(c)
    \/ LET u == Unsigned(c)
       IN \E d \in 0..(Len(u) - 1) :
             /\ CharAt(u, d + 1) = "."
             /\ Len(u) > 1
             /\ Len(u) - d - 1 \in 0..2
             /\ AllDigits(SubSeq(u, 1, d))
             /\ AllDigits(SubSeq(u, d + 2, Len(u)))

\* the integer a cell of digits stands for
CellInt(c) == IF IsNegative(c) THEN 0 - DigitsVal(Unsigned(c)) ELSE DigitsVal(Unsigned(c))

\* the float a numeric cell stands for, in hundredths
CellHundredths(c) ==
    IF IsIntCell(c) THEN CellInt(c) * 100
    ELSE LET u == Unsigned(c)
             d == CHOOSE d \in 0..(Len(u) - 1) : CharAt(u, d + 1) = "."
             frac == SubSeq(u, d + 2, Len(u))
             h == DigitsVal(SubSeq(u, 1, d)) * 100
                    + (IF Len(frac) = 1 THEN DigitsVal(frac) * 10 ELSE DigitsVal(frac))
         IN IF IsNegative(c) THEN 0 - h ELSE h

\* read_csv's conversion of one column: missing values first, then the
\* narrowest type that takes every other cell (int64, with a missing value
\* float64; float64; else the texts as they are)
ReadColumn(cells) ==
    LET present == {i \in 1..Len(cells) : cells[i] \notin NaCells}
        allInt == \A i \in present : IsIntCell(cells[i])
        allFloat == \A i \in present : IsFloatCell(cells[i])
    IN [i \in 1..Len(cells) |->
          IF i \notin present THEN NaN
          ELSE IF allInt /\ present = 1..Len(cells) THEN IntV(CellInt(cells[i]))
          ELSE IF allFloat THEN FloatV(CellHundredths(cells[i]))
          ELSE StrV(cells[i])]

\* the DataFrame read from the lines of the file: a sequence of rows
ReadRows(lines) ==
    LET amount == ReadColumn([i \in 1..Len(lines) |-> lines[i].Amount])
        category == ReadColumn([i \in 1..Len(lines) |-> lines[i].Category])
        type == ReadColumn([i \in 1..Len(lines) |-> lines[i].Type])
        date == ReadColumn([i \in 1..Len(lines) |-> lines[i].Date])
    IN [i \in 1..Len(lines) |->
          [Amount |-> amount[i], Category |-> category[i],
           Type |-> type[i], Date |-> date[i]]]

\* to_csv's text of one value (na_rep is "")
CellOf(v) ==
    IF v.k = "str" THEN v.s
    ELSE IF v.k = "float" THEN FloatStr(v.n)
    ELSE IF v.k = "int" THEN IntStr(v.n)
    ELSE ""

\* the lines to_csv writes for a DataFrame
WriteRows(df) ==
    [i \in 1..Len(df) |->
        [Amount |-> CellOf(df[i].Amount), Category |-> CellOf(df[i].Category),
         Type |-> CellOf(df[i].Type), Date |-> CellOf(df[i].Date)]]

\* str(value) inside an f-string
ValueStr(v) == IF v.k = "nan" THEN "nan" ELSE CellOf(v)

(***************************************************************************)
(* The state of the file: "ok"; "missing" (removed: reading raises,        *)
(* writing creates it); "malformed" (not parseable: reading raises,        *)
(* writing replaces it); "readonly" (reading works, writing raises).       *)
(***************************************************************************)
EmptyFile == [status |-> "ok", lines |-> <<>>]

CanRead(f) == f.status \in {"ok", "readonly"}
CanWrite(f) == f.status # "readonly"

\* read_csv that takes the first record for the header: the record is left out
read_csv_skips_first(f) == IF f.lines = <<>> THEN <<>> ELSE ReadRows(Tail(f.lines))

\* pd.read_csv(CSV_FILE), where it does not raise
read_csv(f) == ReadRows(f.lines)

\* df.to_csv(CSV_FILE, index=False), where it does not raise
to_csv(df) == [status |-> "ok", lines |-> WriteRows(df)]

(***************************************************************************)
(* The bytes of the file.  to_csv opens the file for writing, which cuts   *)
(* it to zero bytes, and writes its text in one piece when it closes the   *)
(* file (the ledgers of the model are far below the size of the buffer).   *)
(* The cells of the model hold no comma, quote or line break, so no cell   *)
(* is quoted.                                                              *)
(***************************************************************************)

\* the file between the open and the write of a to_csv: zero bytes, which
\* read_csv refuses (EmptyDataError)
Truncated == [status |-> "truncated", lines |-> <<>>]

HeaderLine == "Amount,Category,Type,Date"

LineText(line) ==
    line.Amount \o "," \o line.Category \o "," \o line.Type \o "," \o line.Date

RECURSIVE LinesText(_)
LinesText(lines) ==
    IF lines = <<>> THEN "" ELSE LineText(lines[1]) \o "\n" \o LinesText(Tail(lines))

\* the text of a file that can be read; a file cut to zero bytes has none
FileText(f) == IF CanRead(f) THEN HeaderLine \o "\n" \o LinesText(f.lines) ELSE ""

\* the fields of s between the separators sep, the empty ones too
SplitBy(s, sep) ==
    LET cuts == {i \in 1..Len(s) : CharAt(s, i) = sep}
        n == Cardinality(cuts)
        cut(k) == IF k = 0 THEN 0
                  ELSE IF k = n + 1 THEN Len(s) + 1
                  ELSE CHOOSE i \in cuts : Cardinality({j \in cuts : j < i}) = k - 1
    IN [k \in 1..(n + 1) |-> SubSeq(s, cut(k - 1) + 1, cut(k) - 1)]

\* the cells read_csv takes from one line of up to four fields: the fields
\* a short line lacks are missing values
ParseLine(text) ==
    LET fields == SplitBy(text, ",")
        cell(i) == IF i <= Len(fields) THEN fields[i] ELSE ""
    IN [Amount |-> cell(1), Category |-> cell(2), Type |-> cell(3), Date |-> cell(4)]

\* the lines read_csv takes from the text lines after the header: blank
\* lines are skipped
RECURSIVE ParseLines(_)
ParseLines(texts) ==
    IF texts = <<>> THEN <<>>
    ELSE IF texts[1] = "" THEN ParseLines(Tail(texts))
    ELSE <<ParseLine(texts[1])>> \o ParseLines(Tail(texts))

\* the file of a text that starts with the header line
ParseFile(text) == [status |-> "ok", lines |-> ParseLines(Tail(SplitBy(text, "\n")))]

\* a write of `new` at offset 0 of a file that holds `old`: what old has
\* beyond the length of new stays
Overlay(old, new) == new \o SubSeq(old, Len(new) + 1, Len(old))

\* the file after the write of a to_csv(df) that opened it earlier: another
\* to_csv may have written since
WriteOver(f, df) ==
    LET new == FileText(to_csv(df))
        old == FileText(f)
    IN IF Len(old) <= Len(new) THEN to_csv(df) ELSE ParseFile(Overlay(old, new))

(***************************************************************************)
(* The ledger operations (src/tracker_agent.py).  Each is an operator from *)
(* the file (and the arguments) to the file afterwards and the outcome:    *)
(* the dict returned, or an exception that leaves the function (raised).   *)
(* The messages are given without the emoji and the currency sign.         *)
(***************************************************************************)

\* the number of rows of df.tail(10)
RecentCount == 10

\* the test of a field left out of the condition of line 17
TruthyStr_Unchecked(opt) == TRUE

\* Python's truth of an optional float and of an optional str
TruthyNum(opt) == opt.some /\ opt.v # 0
TruthyStr(opt) == opt.some /\ opt.v # ""

\* new_row of save_transaction
NewRow(data, today) ==
    [Amount |-> FloatV(data.Amount.v),
     Category |-> StrV(Title(data.Category.v)),
     Type |-> StrV(data.Type.v),
     Date |-> StrV(today)]

\* save_transaction(user_input), on the day `today`; data is
\* extract_expense_info(user_input).  No try: what read_csv or to_csv
\* raises leaves the function.
save_transaction(f, data, today) ==
    IF TruthyNum(data.Amount) /\ TruthyStr(data.Category) /\ TruthyStr(data.Type)
    THEN IF ~CanRead(f)
         THEN [file |-> f,
               ret |-> [raised |-> TRUE, success |-> FALSE, message |-> "read_csv: " \o f.status]]
         ELSE IF ~CanWrite(f)
         THEN [file |-> f,
               ret |-> [raised |-> TRUE, success |-> FALSE, message |-> "to_csv: " \o f.status]]
         ELSE LET new_row == NewRow(data, today)
                  df == Append(read_csv(f), new_row)
              IN [file |-> to_csv(df),
                  ret |-> [raised |-> FALSE, success |-> TRUE,
                           message |-> "Saved: " \o FloatStr(data.Amount.v) \o " on "
                                          \o data.Category.v \o " (" \o data.Type.v \o ")",
                           transaction |-> new_row]]
    ELSE [file |-> f,
          ret |-> [raised |-> FALSE, success |-> FALSE,
                   message |-> "Could not understand. Try: 'I spent 100 on groceries' or 'I received 500 from freelance'",
                   extracted |-> data]]

\* SumOfType without the filter on Type: df["Amount"].sum()
RECURSIVE SumOfType_AnyType(_, _)
SumOfType_AnyType(df, type) ==
    IF df = <<>> THEN 0 ELSE df[1].Amount.n + SumOfType_AnyType(Tail(df), type)

\* df[df["Type"] == type]["Amount"].sum(), in hundredths
RECURSIVE SumOfType(_, _)
SumOfType(df, type) ==
    IF df = <<>> THEN 0
    ELSE (IF df[1].Type = StrV(type) THEN df[1].Amount.n ELSE 0) + SumOfType(Tail(df), type)

\* df[df["Type"] == type][df["Category"] == category]["Amount"].sum()
RECURSIVE SumOfCategory(_, _, _)
SumOfCategory(df, type, category) ==
    IF df = <<>> THEN 0
    ELSE (IF df[1].Type = StrV(type) /\ df[1].Category = category THEN df[1].Amount.n ELSE 0)
            + SumOfCategory(Tail(df), type, category)

\* df[df["Type"] == type].groupby("Category")["Amount"].sum().to_dict():
\* groupby leaves the rows with a missing category out
GroupByCategory(df, type) ==
    LET keys == {df[i].Category : i \in {j \in 1..Len(df) :
                                            df[j].Type = StrV(type) /\ df[j].Category # NaN}}
    IN [c \in keys |-> SumOfCategory(df, type, c)]

\* df.tail(10)
RecentRows(df) ==
    IF Len(df) <= RecentCount THEN df ELSE SubSeq(df, Len(df) - RecentCount + 1, Len(df))

\* show_summary()
show_summary(f) ==
    IF ~CanRead(f)
    THEN [file |-> f,
          ret |-> [raised |-> FALSE, success |-> FALSE,
                   message |-> "Error generating summary: " \o f.status]]
    ELSE LET df == read_csv(f)
         IN IF df = <<>>
            THEN [file |-> f,
                  ret |-> [raised |-> FALSE, success |-> TRUE,
                           message |-> "No records found.",
                           data |-> [total_income |-> 0,
                                     total_expense |-> 0,
                                     balance |-> 0,
                                     income_by_category |-> <<>>,
                                     expenses_by_category |-> <<>>,
                                     recent_transactions |-> <<>>]]]
            ELSE LET total_income == SumOfType(df, "Income")
                     total_expense == SumOfType(df, "Expense")
                     balance == total_income - total_expense
                 IN [file |-> f,
                     ret |-> [raised |-> FALSE, success |-> TRUE,
                              message |-> "",
                              data |-> [total_income |-> total_income,
                                        total_expense |-> total_expense,
                                        balance |-> balance,
                                        income_by_category |-> GroupByCategory(df, "Income"),
                                        expenses_by_category |-> GroupByCategory(df, "Expense"),
                                        recent_transactions |-> RecentRows(df),
                                        total_records |-> Len(df)]]]

\* reset_data that reports success and writes nothing
reset_data_keeps_rows(f) ==
    [file |-> f,
     ret |-> [raised |-> FALSE, success |-> TRUE, message |-> "All data has been reset."]]

\* reset_data()
reset_data(f) ==
    IF ~CanWrite(f)
    THEN [file |-> f,
          ret |-> [raised |-> FALSE, success |-> FALSE,
                   message |-> "Error resetting data: " \o f.status]]
    ELSE [file |-> to_csv(<<>>),
          ret |-> [raised |-> FALSE, success |-> TRUE,
                   message |-> "All data has been reset."]]

\* get_transactions()
get_transactions(f) ==
    IF ~CanRead(f)
    THEN [file |-> f,
          ret |-> [raised |-> FALSE, success |-> FALSE,
                   message |-> "Error fetching transactions: " \o f.status]]
    ELSE [file |-> f,
          ret |-> [raised |-> FALSE, success |-> TRUE, message |-> "",
                   data |-> read_csv(f)]]

\* the row that df.iloc[index] and df.index[index] name, 1-based: Python
\* counts a negative index from the end
IlocPos(df, index) == IF index < 0 THEN Len(df) + index + 1 ELSE index + 1

\* df.drop(df.index[index]): the rows but the one at pos
DropRow(df, pos) == SubSeq(df, 1, pos - 1) \o SubSeq(df, pos + 1, Len(df))

\* IndexInRange without its lower bound: `index < len(df)`
IndexInRange_NoLowerBound(df, index) == index < Len(df)

\* 0 <= index < len(df)
IndexInRange(df, index) == 0 <= index /\ index < Len(df)

\* delete_transaction(index).  The except branch takes what read_csv, iloc
\* (IndexError) or to_csv raises.
delete_transaction(f, index) ==
    IF ~CanRead(f)
    THEN [file |-> f,
          ret |-> [raised |-> FALSE, success |-> FALSE,
                   message |-> "Error deleting transaction: " \o f.status]]
    ELSE LET df == read_csv(f)
             pos == IlocPos(df, index)
         IN IF IndexInRange(df, index)
            THEN IF pos \notin 1..Len(df)
                 THEN [file |-> f,
                       ret |-> [raised |-> FALSE, success |-> FALSE,
                                message |-> "Error deleting transaction: IndexError"]]
                 ELSE IF ~CanWrite(f)
                 THEN [file |-> f,
                       ret |-> [raised |-> FALSE, success |-> FALSE,
                                message |-> "Error deleting transaction: " \o f.status]]
                 ELSE LET deleted_row == df[pos]
                      IN [file |-> to_csv(DropRow(df, pos)),
                          ret |-> [raised |-> FALSE, success |-> TRUE,
                                   message |-> "Transaction deleted: "
                                                  \o ValueStr(deleted_row.Amount) \o " on "
                                                  \o ValueStr(deleted_row.Category),
                                   deleted_transaction |-> deleted_row]]
            ELSE [file |-> f,
                  ret |-> [raised |-> FALSE, success |-> FALSE,
                           message |-> "Invalid transaction index"]]

(***************************************************************************)
(* Inputs                                                                  *)
(***************************************************************************)

\* the most records the ledger is let grow to
MaxRecords == 3

\* the most words of a text given to the extractor alone
MaxWords == 4

\* the most calls that concurrent callers make
MaxCalls == 4

\* the texts callers add to the ledger
LedgerTexts ==
    { "I spent 100 on food",
      "paid 50 for 7",
      "Got 200 from n/a",
      "spent 0 on food",
      "12.5 dollars",
      "hello" }

\* the texts concurrent callers add to the ledger
RacedTexts == { "I spent 100 on food", "Got 200 from n/a", "hello" }

\* the days the operations run on
Dates == << "2024-01-31", "2024-02-01" >>

\* the positions callers ask to delete
Indexes == (0 - 1)..MaxRecords

\* the words of the texts given to the extractor alone
Vocab == << "Spent", "got", "100", "on", "to", "the", "food", "cab", "from" >>

\* the texts given to the extractor alone: every text of one to MaxWords
\* words of Vocab, separated by single spaces
WordLists == UNION {[1..n -> 1..Len(Vocab)] : n \in 1..MaxWords}

TextOf(w) == Join([i \in 1..Len(w) |-> Vocab[w[i]]])

\* extract_expense_info on the texts added to the ledger
Extracted == [t \in LedgerTexts |-> extract_expense_info(t)]

(***************************************************************************)
(* State                                                                   *)
(***************************************************************************)
VARIABLES
    csv,        \* expense_data.csv: its status and its lines
    today,      \* datetime.today(), as '%Y-%m-%d'
    last,       \* the last call: operation, arguments, file before, outcome
    input,      \* a text given to the extractor alone
    extracted,  \* what the extractor made of it
    threads,    \* the requests in flight, one per worker thread of the server
    acked       \* what the calls that returned success have added and removed

vars == <<csv, today, last, input, extracted, threads, acked>>

NotExtracted == [Amount |-> NoneNum, Category |-> NoneStr, Type |-> NoneStr, done |-> FALSE]

NoCall == [op |-> "none", afterReset |-> FALSE, text |-> "", index |-> 0, pre |-> EmptyFile,
           ret |-> [raised |-> FALSE, success |-> TRUE, message |-> ""]]

Call(op, text, index, r) ==
    [op |-> op, afterReset |-> (last.op = "reset_data" /\ last.ret.success), text |-> text, index |-> index, pre |-> csv, ret |-> r.ret]

\* the worker threads that run the handlers of the server
Workers == {1, 2}

\* a worker with no request, and a worker about to call to_csv(df) ("write"),
\* having read the file; inside to_csv, between the open and the write, its
\* pc is "flush"
IdleThread == [pc |-> "idle", op |-> "none", df |-> <<>>, amount |-> 0, pos |-> 0]

Writing(op, df, amount, pos) ==
    [pc |-> "write", op |-> op, df |-> df, amount |-> amount, pos |-> pos]

\* nothing has returned success yet; overlapped: a call has started while
\* another one was under way
NothingAcked == [amounts |-> <<>>, overlapped |-> FALSE, removed |-> FALSE, calls |-> 0]

\* the module is imported: the file is created, empty, if it does not exist
Init ==
    /\ csv = EmptyFile
    /\ today = Dates[1]
    /\ last = NoCall
    /\ input = ""
    /\ extracted = NotExtracted
    /\ threads = [w \in Workers |-> IdleThread]
    /\ acked = NothingAcked

SaveTransaction ==
    \E t \in LedgerTexts :
        /\ Len(csv.lines) < MaxRecords
        /\ LET r == save_transaction(csv, Extracted[t], today)
           IN /\ csv' = r.file
              /\ last' = Call("save_transaction", t, 0, r)
        /\ UNCHANGED <<today, input, extracted, threads, acked>>

ShowSummary ==
    /\ LET r == show_summary(csv)
       IN /\ csv' = r.file
          /\ last' = Call("show_summary", "", 0, r)
    /\ UNCHANGED <<today, input, extracted, threads, acked>>

ResetData ==
    /\ LET r == reset_data(csv)
       IN /\ csv' = r.file
          /\ last' = Call("reset_data", "", 0, r)
    /\ UNCHANGED <<today, input, extracted, threads, acked>>

GetTransactions ==
    /\ LET r == get_transactions(csv)
       IN /\ csv' = r.file
          /\ last' = Call("get_transactions", "", 0, r)
    /\ UNCHANGED <<today, input, extracted, threads, acked>>

DeleteTransaction ==
    \E index \in Indexes :
        /\ LET r == delete_transaction(csv, index)
           IN /\ csv' = r.file
              /\ last' = Call("delete_transaction", "", index, r)
        /\ UNCHANGED <<today, input, extracted, threads, acked>>

\* midnight passes
NextDay ==
    /\ today = Dates[1]
    /\ today' = Dates[2]
    /\ UNCHANGED <<csv, last, input, extracted, threads, acked>>

Next ==
    \/ SaveTransaction
    \/ ShowSummary
    \/ ResetData
    \/ GetTransactions
    \/ DeleteTransaction
    \/ NextDay

\* the ledger on a storage that works
Spec == Init /\ [][Next]_vars

(***************************************************************************)
(* Storage faults: what the environment does to the file between calls.    *)
(***************************************************************************)
RemoveFile ==
    /\ csv.status # "missing"
    /\ csv' = [status |-> "missing", lines |-> <<>>]
    /\ UNCHANGED <<today, last, input, extracted, threads, acked>>

CorruptFile ==
    /\ csv.status \in {"ok", "readonly"}
    /\ csv' = [status |-> "malformed", lines |-> <<>>]
    /\ UNCHANGED <<today, last, input, extracted, threads, acked>>

MakeReadOnly ==
    /\ csv.status = "ok"
    /\ csv' = [csv EXCEPT !.status = "readonly"]
    /\ UNCHANGED <<today, last, input, extracted, threads, acked>>

MakeWritable ==
    /\ csv.status = "readonly"
    /\ csv' = [csv EXCEPT !.status = "ok"]
    /\ UNCHANGED <<today, last, input, extracted, threads, acked>>

\* the process starts again: `if not os.path.exists(CSV_FILE)` at import
Restart ==
    /\ csv' = IF csv.status = "missing" THEN EmptyFile ELSE csv
    /\ last' = NoCall
    /\ UNCHANGED <<today, input, extracted, threads, acked>>

NextFault ==
    \/ Next
    \/ RemoveFile
    \/ CorruptFile
    \/ MakeReadOnly
    \/ MakeWritable
    \/ Restart

\* the ledger on a storage that can fail
SpecFault == Init /\ [][NextFault]_vars

(***************************************************************************)
(* Concurrent requests.  The handlers of src/api_server.py are plain `def` *)
(* functions, which the server runs on worker threads; nothing in          *)
(* src/tracker_agent.py locks the file.  A call that writes is three       *)
(* steps: up to and including its read_csv; the open of its to_csv, which  *)
(* cuts the file to zero bytes; the write of its to_csv and its return.    *)
(* reset_data reads nothing: it is the last two.  A call that returns      *)
(* without a write is one step, and `last` keeps what it returned.         *)
(***************************************************************************)

\* some other worker is inside a call
OthersWriting(w) == \E o \in Workers \ {w} : threads[o].pc # "idle"

\* a call of worker w starts
Overlap(w) == [acked EXCEPT !.overlapped = @ \/ OthersWriting(w), !.calls = @ + 1]

\* the amounts acknowledged, without the one at pos (if there is one)
WithoutAt(amounts, pos) ==
    IF pos \in 1..Len(amounts)
    THEN SubSeq(amounts, 1, pos - 1) \o SubSeq(amounts, pos + 1, Len(amounts))
    ELSE amounts

\* save_transaction up to `df = pd.concat(...)`.  A text that is not
\* understood returns at once, without a look at the file; on a file that
\* another to_csv has cut to zero bytes read_csv raises, and the call ends.
SaveRead(w) ==
    \E t \in RacedTexts :
        /\ threads[w].pc = "idle"
        /\ acked.calls < MaxCalls
        /\ LET data == Extracted[t]
           IN IF /\ TruthyNum(data.Amount) /\ TruthyStr(data.Category) /\ TruthyStr(data.Type)
                 /\ CanRead(csv)
              THEN /\ threads' = [threads EXCEPT ![w] =
                                    Writing("save_transaction",
                                            Append(read_csv(csv), NewRow(data, today)),
                                            data.Amount.v, 0)]
                   /\ UNCHANGED last
              ELSE /\ last' = Call("save_transaction", t, 0, save_transaction(csv, data, today))
                   /\ UNCHANGED threads
        /\ acked' = Overlap(w)
        /\ UNCHANGED <<csv, today, input, extracted>>

\* delete_transaction up to `df = df.drop(...)`.  An index out of range
\* returns at once; what read_csv raises on a file cut to zero bytes is
\* caught, and the call returns its message.
DeleteRead(w) ==
    \E index \in (0 - 1)..MaxCalls :
        /\ threads[w].pc = "idle"
        /\ acked.calls < MaxCalls
        /\ IF CanRead(csv) /\ IndexInRange(read_csv(csv), index)
           THEN /\ threads' = [threads EXCEPT ![w] =
                                 Writing("delete_transaction",
                                         DropRow(read_csv(csv), IlocPos(read_csv(csv), index)),
                                         0, IlocPos(read_csv(csv), index))]
                /\ UNCHANGED last
           ELSE /\ last' = Call("delete_transaction", "", index, delete_transaction(csv, index))
                /\ UNCHANGED threads
        /\ acked' = Overlap(w)
        /\ UNCHANGED <<csv, today, input, extracted>>

\* get_transactions: one read_csv; what it raises is caught
ReadAll(w) ==
    /\ threads[w].pc = "idle"
    /\ acked.calls < MaxCalls
    /\ last' = Call("get_transactions", "", 0, get_transactions(csv))
    /\ acked' = Overlap(w)
    /\ UNCHANGED <<csv, today, input, extracted, threads>>

\* the open of `df.to_csv(CSV_FILE, index=False)` in save_transaction and in
\* delete_transaction: the file is cut to zero bytes
OpenFile(w) ==
    /\ threads[w].pc = "write"
    /\ csv' = Truncated
    /\ threads' = [threads EXCEPT ![w].pc = "flush"]
    /\ UNCHANGED <<today, last, input, extracted, acked>>

\* reset_data up to the open of its to_csv: no read
ResetOpen(w) ==
    /\ threads[w].pc = "idle"
    /\ acked.calls < MaxCalls
    /\ csv' = Truncated
    /\ threads' = [threads EXCEPT ![w] =
                      [pc |-> "flush", op |-> "reset_data", df |-> <<>>,
                       amount |-> 0, pos |-> 0]]
    /\ acked' = Overlap(w)
    /\ UNCHANGED <<today, last, input, extracted>>

\* the write of the to_csv, at offset 0 of what the file holds by now, and
\* the return of success
WriteBack(w) ==
    /\ threads[w].pc = "flush"
    /\ csv' = WriteOver(csv, threads[w].df)
    /\ acked' = IF threads[w].op = "save_transaction"
                THEN [acked EXCEPT !.amounts = Append(@, threads[w].amount)]
                ELSE IF threads[w].op = "delete_transaction"
                THEN [acked EXCEPT !.amounts = WithoutAt(@, threads[w].pos),
                                   !.removed = TRUE]
                ELSE [acked EXCEPT !.amounts = <<>>, !.removed = TRUE]
    /\ threads' = [threads EXCEPT ![w] = IdleThread]
    /\ UNCHANGED <<today, last, input, extracted>>

NextThreads ==
    \E w \in Workers :
        \/ SaveRead(w)
        \/ DeleteRead(w)
        \/ ReadAll(w)
        \/ OpenFile(w)
        \/ ResetOpen(w)
        \/ WriteBack(w)

\* the ledger under concurrent requests, on a storage that works
SpecThreads == Init /\ [][NextThreads]_vars

(***************************************************************************)
(* The extractor alone, on every text of up to MaxWords words of Vocab.    *)
(***************************************************************************)
InitExtract ==
    /\ \E w \in WordLists : input = TextOf(w)
    /\ extracted = NotExtracted
    /\ csv = EmptyFile
    /\ today = Dates[1]
    /\ last = NoCall
    /\ threads = [w \in Workers |-> IdleThread]
    /\ acked = NothingAcked

Extract ==
    /\ ~extracted.done
    /\ extracted' = LET data == extract_expense_info(input)
                     IN [Amount |-> data.Amount, Category |-> data.Category,
                         Type |-> data.Type, done |-> TRUE]
    /\ UNCHANGED <<csv, today, last, input, threads, acked>>

SpecExtract == InitExtract /\ [][Extract]_vars

(***************************************************************************)
(* One call of POST /add with any text of up to MaxWords words of Vocab or *)
(* any of LedgerTexts, on an empty ledger and on a ledger of two records.  *)
(***************************************************************************)

\* the ledger after 'I spent 100 on food' and 'Got 200 from n/a'
TwoRecords ==
    save_transaction(save_transaction(EmptyFile, Extracted["I spent 100 on food"], Dates[1]).file,
                     Extracted["Got 200 from n/a"], Dates[1]).file

PriorLedgers == {EmptyFile, TwoRecords}

InitAdd ==
    /\ \/ \E w \in WordLists : input = TextOf(w)
       \/ input \in LedgerTexts
    /\ csv \in PriorLedgers
    /\ extracted = NotExtracted
    /\ today = Dates[1]
    /\ last = NoCall
    /\ threads = [w \in Workers |-> IdleThread]
    /\ acked = NothingAcked

\* add_transaction(data) with data.message = input
AddInput ==
    /\ last.op = "none"
    /\ Len(csv.lines) < MaxRecords
    /\ extracted' = LET data == extract_expense_info(input)
                     IN [Amount |-> data.Amount, Category |-> data.Category,
                         Type |-> data.Type, done |-> TRUE]
    /\ LET data == [Amount |-> extracted'.Amount, Category |-> extracted'.Category,
                    Type |-> extracted'.Type]
           r == save_transaction(csv, data, today)
       IN /\ csv' = r.file
          /\ last' = Call("save_transaction", input, 0, r)
    /\ UNCHANGED <<today, input, threads, acked>>

SpecAdd == InitAdd /\ [][AddInput]_vars

(***************************************************************************)
(* Properties of the ledger                                                *)
(***************************************************************************)

\* list_all(): the records get_transactions returns for a readable file
Listed(f) == get_transactions(f).ret.data

\* the number of records of the ledger kept in file f
Count(f) == Len(f.lines)

\* the sum, in hundredths, of the Amount cells of the lines of one type
RECURSIVE LedgerTotal(_, _)
LedgerTotal(lines, type) ==
    IF lines = <<>> THEN 0
    ELSE (IF lines[Len(lines)].Type = type THEN CellHundredths(lines[Len(lines)].Amount) ELSE 0)
            + LedgerTotal(SubSeq(lines, 1, Len(lines) - 1), type)

\* C1: every record of the persisted ledger has a non-null amount > 0, a
\* category that is neither missing nor empty, and the type Income or Expense.
C1_PersistedRecordsWellFormed ==
    \A i \in 1..Count(csv) :
        /\ Listed(csv)[i].Amount.k = "float"
        /\ Listed(csv)[i].Amount.n > 0
        /\ Listed(csv)[i].Category # NaN
        /\ csv.lines[i].Category # ""
        /\ Listed(csv)[i].Type \in {StrV("Income"), StrV("Expense")}

\* C2: after a successful save_transaction, get_transactions returns the
\* records it returned before, in the same order, followed by the record
\* saved, equal to it in Amount, Category, Type and Date.
C2_AppendRoundTrip ==
    (last.op = "save_transaction" /\ last.ret.success)
        => Listed(csv) = Append(Listed(last.pre), last.ret.transaction)

\* C3: delete_transaction(p) with 0 <= p < n succeeds, returns the record
\* that was at position p and leaves n-1 records: those before p where they
\* were, those after p one position down, none of them changed.
C3_DeleteShiftsIndices ==
    (last.op = "delete_transaction" /\ 0 <= last.index /\ last.index < Count(last.pre))
        => /\ last.ret.success
           /\ last.ret.deleted_transaction = Listed(last.pre)[last.index + 1]
           /\ Len(Listed(csv)) = Count(last.pre) - 1
           /\ \A q \in 1..Len(Listed(csv)) :
                 Listed(csv)[q] = IF q <= last.index THEN Listed(last.pre)[q]
                                  ELSE Listed(last.pre)[q + 1]

\* C4: delete_transaction(p) with p < 0 or p >= n returns a failure (success
\* false, with a message) as a value and leaves the file as it was.
C4_DeleteOutOfRangeFails ==
    (last.op = "delete_transaction" /\ (last.index < 0 \/ last.index >= Count(last.pre)))
        => /\ ~last.ret.raised
           /\ ~last.ret.success
           /\ last.ret.message # ""
           /\ csv = last.pre

\* C4 happens: a negative position was refused on a ledger of two or more records
C4_NegativeIndexRefused ==
    /\ last.op = "delete_transaction"
    /\ last.index < 0
    /\ Count(last.pre) >= 2
    /\ ~last.ret.success
    /\ Count(csv) >= 2

\* C5: reset_data returns success and leaves the ledger empty, from any
\* ledger and also right after a reset; a save that follows a reset puts its
\* record at position 0 of a ledger of one record.
C5_ResetTotalIdempotent ==
    /\ last.op = "reset_data"
          => /\ ~last.ret.raised
             /\ last.ret.success
             /\ csv = EmptyFile
             /\ get_transactions(csv).ret.success
             /\ Listed(csv) = <<>>
    /\ (last.op = "save_transaction" /\ last.afterReset /\ last.ret.success)
          => /\ Count(csv) = 1
             /\ csv.lines = WriteRows(<<last.ret.transaction>>)

\* C5 happens: a reset of a ledger that a reset had just emptied
C5_SecondResetInARow ==
    /\ last.op = "reset_data"
    /\ last.afterReset
    /\ last.ret.success
    /\ csv = EmptyFile

\* C6: show_summary returns success with a summary holding total_records,
\* the number of records; on the empty ledger that is 0, with the three
\* totals 0 and the category maps empty.
C6_SummaryCountsRecords ==
    last.op = "show_summary"
        => /\ last.ret.success
           /\ "total_records" \in DOMAIN last.ret.data
           /\ last.ret.data.total_records = Count(last.pre)
           /\ Count(last.pre) = 0
                 => /\ last.ret.data.total_income = 0
                    /\ last.ret.data.total_expense = 0
                    /\ last.ret.data.balance = 0
                    /\ DOMAIN last.ret.data.income_by_category = {}
                    /\ DOMAIN last.ret.data.expenses_by_category = {}

\* C7: show_summary returns total_income, the sum of the amounts of the
\* Income records, total_expense, the sum of the amounts of the Expense
\* records, and balance, their difference.
C7_SummaryTotals ==
    last.op = "show_summary"
        => /\ last.ret.success
           /\ last.ret.data.total_income = LedgerTotal(last.pre.lines, "Income")
           /\ last.ret.data.total_expense = LedgerTotal(last.pre.lines, "Expense")
           /\ last.ret.data.balance =
                 LedgerTotal(last.pre.lines, "Income") - LedgerTotal(last.pre.lines, "Expense")

\* C7 happens: the summary of [100 Expense, 50 Expense, 200 Income] is
\* total_expense 150, total_income 200, balance 50
C7_ExampleSummary ==
    /\ last.op = "show_summary"
    /\ Count(last.pre) = 3
    /\ [i \in 1..3 |-> <<last.pre.lines[i].Amount, last.pre.lines[i].Type>>]
          = << <<"100.0", "Expense">>, <<"50.0", "Expense">>, <<"200.0", "Income">> >>
    /\ last.ret.data.total_expense = 15000
    /\ last.ret.data.total_income = 20000
    /\ last.ret.data.balance = 5000

\* C8: no operation lets a storage fault leave it as an exception; with the
\* file unreadable (for reset_data: unwritable) it returns success false and
\* a message.
C8_NoFaultEscapes ==
    last.op # "none"
        => /\ ~last.ret.raised
           /\ (last.op # "reset_data" /\ ~CanRead(last.pre))
                 => (~last.ret.success /\ last.ret.message # "")
           /\ (last.op = "reset_data" /\ ~CanWrite(last.pre))
                 => (~last.ret.success /\ last.ret.message # "")

(***************************************************************************)
(* Properties of the extractor                                             *)
(***************************************************************************)

\* the keywords as the claims list them
ClaimedExpenseKeywords ==
    << "spent", "paid", "bought", "purchased", "ate", "gave", "cost", "costs",
       "bill", "bills", "expense", "expenses", "shopping", "shop", "buy" >>
ClaimedIncomeKeywords ==
    << "received", "got", "earned", "salary", "income", "profit", "bonus",
       "refund", "returned", "cashback", "won", "gift", "allowance" >>

HasExpenseKeyword(text) == ContainsAny(Lower(text), ClaimedExpenseKeywords)
HasIncomeKeyword(text) == ContainsAny(Lower(text), ClaimedIncomeKeywords)

\* no bucket keyword in the text, no preposition among its words, and no
\* word without a digit after a word with one
NoExpenseCategoryMatch(text) ==
    LET lowered == Lower(text)
        words == Split(lowered)
        substrings == Substrings(lowered)
    IN /\ \A b \in 1..Len(category_keywords) :
             ~AnyKeywordIn(substrings, category_keywords[b].keywords)
       /\ \A i \in 1..Len(words) : words[i] \notin {"on", "for", "to", "at"}
       /\ \A i, j \in 1..Len(words) : (i < j /\ HasDigit(words[i])) => HasDigit(words[j])

\* no source keyword in the text and no word "from"
NoIncomeCategoryMatch(text) ==
    LET lowered == Lower(text)
        words == Split(lowered)
        substrings == Substrings(lowered)
    IN /\ \A b \in 1..Len(income_sources) :
             ~AnyKeywordIn(substrings, income_sources[b].keywords)
       /\ \A i \in 1..Len(words) : words[i] # "from"

\* C9: a text with an expense keyword and a parsable amount is an Expense
\* with a category that is neither null nor empty, an income keyword in it
\* or not; the category is Miscellaneous when nothing matches.
C9_ExpenseKeywordGivesExpense ==
    (extracted.done /\ HasExpenseKeyword(input) /\ extracted.Amount.some)
        => /\ extracted.Type = Some("Expense")
           /\ extracted.Category.some
           /\ extracted.Category.v # ""
           /\ NoExpenseCategoryMatch(input) => extracted.Category.v = "Miscellaneous"

\* C9 happens: a text with an expense keyword, an income keyword and an
\* amount came out as an Expense
C9_BothKeywords ==
    /\ extracted.done
    /\ HasExpenseKeyword(input)
    /\ HasIncomeKeyword(input)
    /\ extracted.Amount.some
    /\ extracted.Type = Some("Expense")

\* C10 as stated: a text with an income keyword and a parsable amount is an
\* Income with a non-null category.
C10_IncomeKeywordGivesIncome ==
    (extracted.done /\ HasIncomeKeyword(input) /\ extracted.Amount.some)
        => /\ extracted.Type = Some("Income")
           /\ extracted.Category.some

\* C10 amended: a text with an income keyword, no expense keyword and a
\* parsable amount is an Income with a category that is neither null nor
\* empty; the category is Other Income when nothing matches.
C10_IncomeKeywordWithoutExpenseKeyword ==
    (extracted.done /\ HasIncomeKeyword(input) /\ ~HasExpenseKeyword(input)
                    /\ extracted.Amount.some)
        => /\ extracted.Type = Some("Income")
           /\ extracted.Category.some
           /\ extracted.Category.v # ""
           /\ NoIncomeCategoryMatch(input) => extracted.Category.v = "Other Income"

\* C10 happens: a text with an income keyword, no expense keyword and an
\* amount came out as an Income of the default category
C10_DefaultIncome ==
    /\ extracted.done
    /\ HasIncomeKeyword(input)
    /\ ~HasExpenseKeyword(input)
    /\ extracted.Amount.some
    /\ extracted.Type = Some("Income")
    /\ extracted.Category = Some("Other Income")

(***************************************************************************)
(* Properties of the preposition fallback of the expense category          *)
(***************************************************************************)

\* the whitespace-tokenized text
Tokens(text) == Split(Lower(text))

\* no keyword of a category bucket occurs in the text
NoBucketKeyword(text) ==
    LET substrings == Substrings(Lower(text))
    IN \A b \in 1..Len(category_keywords) :
          ~AnyKeywordIn(substrings, category_keywords[b].keywords)

ClaimedPrepositions == << "on", "for", "to", "at" >>

\* the position of the last token that is a preposition, 0 when there is none
LastPreposition(words) ==
    LET at == {i \in 1..Len(words) :
                  \E k \in 1..Len(ClaimedPrepositions) : words[i] = ClaimedPrepositions[k]}
    IN IF at = {} THEN 0 ELSE CHOOSE i \in at : \A j \in at : j <= i

\* the position of the first token equal to p, 0 when there is none
FirstToken(words, p) ==
    LET at == {i \in 1..Len(words) : words[i] = p}
    IN IF at = {} THEN 0 ELSE CHOOSE i \in at : \A j \in at : i <= j

\* the first occurrence of the first preposition, in the order on, for, to,
\* at, whose first occurrence is a token other than the last one; 0 when
\* there is none
FirstPrepositionInOrder(words) ==
    LET ks == {k \in 1..Len(ClaimedPrepositions) :
                  /\ FirstToken(words, ClaimedPrepositions[k]) # 0
                  /\ FirstToken(words, ClaimedPrepositions[k]) < Len(words)}
    IN IF ks = {} THEN 0
       ELSE FirstToken(words, ClaimedPrepositions[CHOOSE k \in ks : \A j \in ks : k <= j])

\* the tokens after position i, joined with single spaces and cleaned of
\* "the" and "a" the way line 102 cleans them
CategoryAfter(words, i) ==
    Strip(Remove(Remove(Strip(Join(SubSeq(words, i + 1, Len(words)))), "the"), "a"))

\* C12 as stated: for an Expense whose text holds no bucket keyword, the
\* category is taken from the tokens after the last token that is one of
\* on, for, to, at.
C12_AfterLastPreposition ==
    (extracted.done /\ extracted.Type = Some("Expense") /\ NoBucketKeyword(input)
                    /\ LastPreposition(Tokens(input)) # 0)
        => LET category == CategoryAfter(Tokens(input), LastPreposition(Tokens(input)))
           IN category # "" => extracted.Category = Some(Title(category))

\* C12 amended: for an Expense whose text holds no bucket keyword, the
\* category is taken from the tokens after the first occurrence of the
\* first of on, for, to, at (in this order) that is a token of the text with
\* a token after its first occurrence.
C12_AfterFirstPrepositionInOrder ==
    (extracted.done /\ extracted.Type = Some("Expense") /\ NoBucketKeyword(input)
                    /\ FirstPrepositionInOrder(Tokens(input)) # 0)
        => LET category == CategoryAfter(Tokens(input), FirstPrepositionInOrder(Tokens(input)))
           IN category # "" => extracted.Category = Some(Title(category))

\* C12 happens: an Expense without a bucket keyword and with several
\* prepositions got its category from the tokens after the first one in
\* the order on, for, to, at, which the tokens after the last preposition
\* do not give
C12_SeveralPrepositions ==
    /\ extracted.done
    /\ extracted.Type = Some("Expense")
    /\ NoBucketKeyword(input)
    /\ FirstPrepositionInOrder(Tokens(input)) # 0
    /\ FirstPrepositionInOrder(Tokens(input)) # LastPreposition(Tokens(input))
    /\ CategoryAfter(Tokens(input), FirstPrepositionInOrder(Tokens(input))) # ""
    /\ extracted.Category =
          Some(Title(CategoryAfter(Tokens(input), FirstPrepositionInOrder(Tokens(input)))))
    /\ extracted.Category #
          Some(Title(CategoryAfter(Tokens(input), LastPreposition(Tokens(input)))))

\* C13: in the preposition fallback only the bare words "the" and "a" are
\* stripped: every other token after the preposition is in the category,
\* with all of its letters (the category compared before title-casing, that
\* is, in lower case).
C13_OtherTokensIntact ==
    (extracted.done /\ extracted.Type = Some("Expense") /\ NoBucketKeyword(input)
                    /\ FirstPrepositionInOrder(Tokens(input)) # 0)
        => LET words == Tokens(input)
               after == (FirstPrepositionInOrder(words) + 1)..Len(words)
               kept == {i \in after : words[i] \notin {"the", "a"}}
           IN \A i \in kept : words[i] \in Substrings(Lower(extracted.Category.v))

(***************************************************************************)
(* Properties of a rejected add                                            *)
(***************************************************************************)

\* the extraction is not well-formed: amount null or 0, or type null, or
\* category null
NotWellFormed(data) ==
    \/ ~data.Amount.some
    \/ data.Amount.v = 0
    \/ ~data.Type.some
    \/ ~data.Category.some

\* C14: save_transaction of a text whose extraction is not well-formed
\* returns success = false with a message and the extracted triple and
\* leaves the file as it was; and the extraction has a category if and only
\* if it has a type.
C14_RejectedAddLeavesLedger ==
    (last.op = "save_transaction")
        => /\ NotWellFormed(extracted)
               => /\ ~last.ret.raised
                  /\ ~last.ret.success
                  /\ last.ret.message # ""
                  /\ last.ret.extracted = [Amount |-> extracted.Amount,
                                            Category |-> extracted.Category,
                                            Type |-> extracted.Type]
                  /\ csv = last.pre
           /\ extracted.Category.some <=> extracted.Type.some

\* C14 happens: a text with an amount and no type was refused on a ledger
\* of two records, which are as they were
C14_RejectedOnLedger ==
    /\ last.op = "save_transaction"
    /\ extracted.Amount.some
    /\ ~extracted.Type.some
    /\ ~last.ret.success
    /\ Count(last.pre) = 2
    /\ csv = last.pre

(***************************************************************************)
(* Properties of concurrent requests                                       *)
(***************************************************************************)

\* the amounts, in hundredths, of the records of the ledger kept in file f
\* (a cell that is not a number, left by two overlapping writes, counts as -1)
LedgerAmounts(f) ==
    [i \in 1..Len(f.lines) |->
        IF IsFloatCell(f.lines[i].Amount) THEN CellHundredths(f.lines[i].Amount) ELSE 0 - 1]

\* C11: as long as no call has started while another one was under way
\* (strictly sequential execution), the ledger holds, whenever no call is
\* inside its to_csv, exactly the appends that returned success, in their
\* order, less those a later successful delete or reset removed: no
\* successful append is lost.
C11_SequentialAppendsKept ==
    (~acked.overlapped /\ \A w \in Workers : threads[w].pc # "flush")
        => /\ csv.status = "ok"
           /\ LedgerAmounts(csv) = acked.amounts

\* C11 happens: two save_transaction calls have returned success, the second
\* having read the ledger before the first wrote, no delete or reset has
\* run, and the ledger holds the record of the last writer alone
C11_LostAppend ==
    /\ acked.overlapped
    /\ ~acked.removed
    /\ \A w \in Workers : threads[w].pc = "idle"
    /\ Len(acked.amounts) = 2
    /\ acked.amounts[1] # acked.amounts[2]
    /\ LedgerAmounts(csv) = << acked.amounts[2] >>

=============================================================================
